---- MODULE Spec2Model ----
(***************************************************************************)
(* A model of src/cp.py, the directory structure and content copier:       *)
(* find_git_root, parse_gitignore, should_ignore, should_include,          *)
(* get_directory_structure, get_file_contents and main.                    *)
(*                                                                         *)
(* Representation.  A Python str is a sequence of characters, each         *)
(* character a one-element token ("a", ".", "/"); the three box-drawing    *)
(* characters of the tree connectors are the tokens "U2500" (the dash),    *)
(* "U2514" (the corner) and "U251C" (the tee).  An absolute path is the    *)
(* sequence of its segments, <<>> being the filesystem root "/"; PathStr   *)
(* gives its text.  The platform is POSIX: os.sep is "/", and              *)
(* os.path.normcase, which fnmatch.fnmatch applies, changes nothing.       *)
(* The optional modules pathspec and pyperclip are not installed           *)
(* (PATHSPEC_AVAILABLE and CLIPBOARD_AVAILABLE are False), so the raw      *)
(* pattern matching of should_ignore is the one that runs.                 *)
(***************************************************************************)
EXTENDS Integers, Sequences, FiniteSets, TLC

(***************************************************************************)
(* Characters and strings                                                  *)
(***************************************************************************)

\* The characters in use, in ascending code point order.
CharTable ==
  << " ", "!", "#", "'", "*", "-", ".", "/", ":", "<", ">", "?",
     "A", "B", "C", "D", "E", "F", "G", "H", "I", "J", "K", "L", "M",
     "N", "O", "P", "Q", "R", "S", "T", "U", "V", "W", "X", "Y", "Z",
     "[", "]", "_",
     "a", "b", "c", "d", "e", "f", "g", "h", "i", "j", "k", "l", "m",
     "n", "o", "p", "q", "r", "s", "t", "u", "v", "w", "x", "y", "z",
     "U2500", "U2514", "U251C" >>

Chars == { CharTable[i] : i \in 1..Len(CharTable) }

\* ord(c), up to an order-preserving renumbering.
Ord == [ c \in Chars |-> CHOOSE i \in 1..Len(CharTable) : CharTable[i] = c ]

UpperFirst == Ord["A"]
UpperLast == Ord["Z"]
LowerFirst == Ord["a"]

\* str.lower() on one character.
LowerChar(c) ==
  IF Ord[c] >= UpperFirst /\ Ord[c] <= UpperLast
    THEN CharTable[Ord[c] - UpperFirst + LowerFirst]
    ELSE c

\* str.lower()
Lower(s) == [ i \in 1..Len(s) |-> LowerChar(s[i]) ]

\* s < t for Python str: lexicographic by code point.
RECURSIVE StrLess(_, _)
StrLess(s, t) ==
  IF t = <<>> THEN FALSE
  ELSE IF s = <<>> THEN TRUE
  ELSE IF s[1] # t[1] THEN Ord[s[1]] < Ord[t[1]]
  ELSE StrLess(Tail(s), Tail(t))

\* sorted(names) for a collection of distinct strings.
RECURSIVE sorted(_)
sorted(names) ==
  IF names = {} THEN <<>>
  ELSE LET least == CHOOSE n \in names : \A m \in names \ {n} : StrLess(n, m)
       IN <<least>> \o sorted(names \ {least})

\* s.startswith(prefix)
StartsWith(s, prefix) ==
  Len(prefix) <= Len(s) /\ SubSeq(s, 1, Len(prefix)) = prefix

\* s.endswith(suffix)
EndsWith(s, suffix) ==
  Len(suffix) <= Len(s) /\ SubSeq(s, Len(s) - Len(suffix) + 1, Len(s)) = suffix

\* s.rstrip('/')
RECURSIVE RStripSlash(_)
RStripSlash(s) ==
  IF s # <<>> /\ s[Len(s)] = "/" THEN RStripSlash(SubSeq(s, 1, Len(s) - 1)) ELSE s

\* s.lstrip() and s.strip(): the only whitespace of the model is the space.
RECURSIVE LStrip(_)
LStrip(s) == IF s # <<>> /\ s[1] = " " THEN LStrip(Tail(s)) ELSE s

RECURSIVE RStrip(_)
RStrip(s) ==
  IF s # <<>> /\ s[Len(s)] = " " THEN RStrip(SubSeq(s, 1, Len(s) - 1)) ELSE s

Strip(s) == LStrip(RStrip(s))

\* sep.join(parts)
RECURSIVE Join(_, _)
Join(sep, parts) ==
  IF parts = <<>> THEN <<>>
  ELSE IF Len(parts) = 1 THEN parts[1]
  ELSE parts[1] \o sep \o Join(sep, Tail(parts))

\* ' ' * n
RECURSIVE Spaces(_)
Spaces(n) == IF n <= 0 THEN <<>> ELSE <<" ">> \o Spaces(n - 1)

\* s.rindex(sub): the highest index (0-based) where sub starts in s, -1 when
\* sub does not occur (Python raises ValueError).
RIndex(s, sub) ==
  LET hits == { i \in 0..(Len(s) - Len(sub)) : SubSeq(s, i + 1, i + Len(sub)) = sub }
  IN IF hits = {} THEN -1 ELSE CHOOSE i \in hits : \A j \in hits : j <= i

(***************************************************************************)
(* fnmatch.fnmatch(name, pat): the shell-style matcher of the standard     *)
(* library, as fnmatch.translate builds it: "*" matches any run of         *)
(* characters ("/" included), "?" one character, "[seq]" and "[!seq]" one  *)
(* character in or out of a class with ranges, a "[" with no closing "]"   *)
(* is literal, everything else is literal; the whole name must match.      *)
(***************************************************************************)

\* The index of the "]" closing the class opened at pat[j] = "[", or 0.
RECURSIVE ScanClose(_, _)
ScanClose(pat, k) ==
  IF k > Len(pat) THEN 0
  ELSE IF pat[k] = "]" THEN k
  ELSE ScanClose(pat, k + 1)

ClassClose(pat, j) ==
  LET j1 == IF j + 1 <= Len(pat) /\ pat[j + 1] = "!" THEN j + 2 ELSE j + 1
      j2 == IF j1 <= Len(pat) /\ pat[j1] = "]" THEN j1 + 1 ELSE j1
  IN ScanClose(pat, j2)

\* Whether character c is one of the members listed in stuff (the text of a
\* class without its brackets and without a leading "!").
RECURSIVE InClassItems(_, _)
InClassItems(c, stuff) ==
  IF stuff = <<>> THEN FALSE
  ELSE IF Len(stuff) >= 3 /\ stuff[2] = "-"
    THEN \/ (Ord[stuff[1]] <= Ord[c] /\ Ord[c] <= Ord[stuff[3]])
         \/ InClassItems(c, SubSeq(stuff, 4, Len(stuff)))
  ELSE stuff[1] = c \/ InClassItems(c, Tail(stuff))

InClass(c, stuff) ==
  IF stuff[1] = "!" THEN ~InClassItems(c, Tail(stuff)) ELSE InClassItems(c, stuff)

RECURSIVE FnMatchFrom(_, _, _, _)
FnMatchFrom(s, i, pat, j) ==
  IF j > Len(pat) THEN i > Len(s)
  ELSE IF pat[j] = "*"
    THEN \/ FnMatchFrom(s, i, pat, j + 1)
         \/ (i <= Len(s) /\ FnMatchFrom(s, i + 1, pat, j))
  ELSE IF pat[j] = "?"
    THEN i <= Len(s) /\ FnMatchFrom(s, i + 1, pat, j + 1)
  ELSE IF pat[j] = "[" /\ ClassClose(pat, j) # 0
    THEN LET close == ClassClose(pat, j)
         IN /\ i <= Len(s)
            /\ InClass(s[i], SubSeq(pat, j + 1, close - 1))
            /\ FnMatchFrom(s, i + 1, pat, close + 1)
  ELSE i <= Len(s) /\ s[i] = pat[j] /\ FnMatchFrom(s, i + 1, pat, j + 1)

fnmatch(name, pat) == FnMatchFrom(name, 1, pat, 1)

(***************************************************************************)
(* Literal texts of the program                                            *)
(***************************************************************************)

TxtPermissionDenied == <<"[", "P", "e", "r", "m", "i", "s", "s", "i", "o", "n", " ", "D", "e", "n", "i", "e", "d", "]">>
TxtVanished == <<" ", "[", "V", "a", "n", "i", "s", "h", "e", "d", " ", "d", "u", "r", "i", "n", "g", " ", "s", "c", "a", "n", "]">>
TxtErrorOpen == <<"E", "r", "r", "o", "r", ":", " ", "'">>
TxtErrorClose == <<"'", " ", "i", "s", " ", "n", "o", "t", " ", "a", " ", "v", "a", "l", "i", "d", " ", "d", "i", "r", "e", "c", "t", "o", "r", "y", ".">>
TxtCorner == <<"U2514", "U2500">>
TxtTee == <<"U251C", "U2500">>
TxtReconstruct == <<"[", "E", "r", "r", "o", "r", " ", "r", "e", "c", "o", "n", "s", "t", "r", "u", "c", "t", "i", "n", "g", " ", "s", "u", "b", "t", "r", "e", "e", " ", "f", "o", "r", " ">>
TxtFileOpen == <<"-", "-", "-", " ", "F", "i", "l", "e", ":", " ">>
TxtFileClose == <<" ", "-", "-", "-">>
PatIpynb == <<"*", ".", "i", "p", "y", "n", "b">>
PatLockJson == <<"*", "l", "o", "c", "k", ".", "j", "s", "o", "n">>
PatGit == <<".", "g", "i", "t", "/">>
PatPycache == <<"_", "_", "p", "y", "c", "a", "c", "h", "e", "_", "_", "/">>
PatNodeModules == <<"n", "o", "d", "e", "_", "m", "o", "d", "u", "l", "e", "s", "/">>
NameGit == <<".", "g", "i", "t">>
NameGitignore == <<".", "g", "i", "t", "i", "g", "n", "o", "r", "e">>
Dot == <<".">>
DotDot == <<".", ".">>
Slash == <<"/">>

\* Python's None and a present value, for the variables that may hold None.
None == <<>>
Some(v) == <<v>>
Val(opt) == opt[1]

(***************************************************************************)
(* State                                                                   *)
(***************************************************************************)

VARIABLES
  fs,                     \* the filesystem: absolute path -> [type, access]
  ignoreFileText,         \* the lines of the .gitignore files of the filesystem
  cwd,                    \* the working directory of the process
  argv,                   \* the command line the program is started with
  args,                   \* the parsed command line (argparse's namespace)
  pc,                     \* the position of main
  start_dir_abs,          \* main's start_dir_abs
  current,                \* find_git_root's loop variable
  GITIGNORE_ROOT,         \* the global GITIGNORE_ROOT
  RAW_GITIGNORE_PATTERNS, \* the global RAW_GITIGNORE_PATTERNS
  gitignore_spec,         \* main's gitignore_spec
  custom_patterns,        \* main's custom_patterns
  structure,              \* main's structure: the lines get_directory_structure returned
  contents,               \* main's contents: the blocks get_file_contents returned
  stdout,                 \* the sections printed on the primary output
  stderr,                 \* the messages printed on the diagnostic channel
  exit_code,              \* the exit status, None while the process runs
  previous,               \* what the previous invocation was given and printed
  degraded                \* history: the degraded conditions this run has met

vars ==
  << fs, ignoreFileText, cwd, argv, args, pc, start_dir_abs, current, GITIGNORE_ROOT,
     RAW_GITIGNORE_PATTERNS, gitignore_spec, custom_patterns, structure, contents,
     stdout, stderr, exit_code, previous, degraded >>

(***************************************************************************)
(* os.path on the modelled filesystem                                      *)
(***************************************************************************)

exists(path) == path \in DOMAIN fs
isdir(path) == exists(path) /\ fs[path].type = "dir"
isfile(path) == exists(path) /\ fs[path].type = "file"

\* os.path.join(path, name), os.path.dirname, os.path.basename
join(path, name) == Append(path, name)
dirname(path) == IF path = <<>> THEN <<>> ELSE SubSeq(path, 1, Len(path) - 1)
basename(path) == IF path = <<>> THEN <<>> ELSE path[Len(path)]

\* The text of an absolute path.
PathStr(path) == IF path = <<>> THEN Slash ELSE Slash \o Join(Slash, path)

\* os.path.normpath on the segments of an absolute path: "." is dropped,
\* ".." drops the segment before it and is itself dropped at the root.
RECURSIVE NormSegments(_, _)
NormSegments(done, rest) ==
  IF rest = <<>> THEN done
  ELSE IF rest[1] = Dot \/ rest[1] = <<>> THEN NormSegments(done, Tail(rest))
  ELSE IF rest[1] = DotDot THEN NormSegments(dirname(done), Tail(rest))
  ELSE NormSegments(Append(done, rest[1]), Tail(rest))

\* os.path.abspath(p) for a command-line path p = [absolute, segments]:
\* normpath(join(os.getcwd(), p)).
abspath(p) ==
  IF p.absolute THEN NormSegments(<<>>, p.segments) ELSE NormSegments(cwd, p.segments)

\* The length of the longest common prefix of two segment sequences.
RECURSIVE CommonLen(_, _)
CommonLen(a, b) ==
  IF a = <<>> \/ b = <<>> \/ a[1] # b[1] THEN 0 ELSE 1 + CommonLen(Tail(a), Tail(b))

\* os.path.relpath(path, start).replace(os.sep, '/') for absolute paths.
relpath(path, start) ==
  LET c == CommonLen(path, start)
      ups == [ i \in 1..(Len(start) - c) |-> DotDot ]
      rel == ups \o SubSeq(path, c + 1, Len(path))
  IN IF rel = <<>> THEN Dot ELSE Join(Slash, rel)

\* [entry.name for entry in os.scandir(path)], as a set: scandir's order is
\* arbitrary and the program sorts the names at once.
scandir(path) ==
  { q[Len(q)] : q \in { r \in DOMAIN fs : Len(r) = Len(path) + 1 /\ dirname(r) = path } }

(***************************************************************************)
(* should_ignore and should_include                                        *)
(***************************************************************************)

\* One turn of the loop over the raw .gitignore patterns (the body of
\* "for pat in gitignore_spec"): whether it returns True.
GitignorePatternHits(pat, rel_repo_path, item_name, is_dir) ==
  LET is_dir_pattern == EndsWith(pat, Slash)
      pat_base == RStripSlash(pat)
  IN \/ /\ is_dir_pattern
        /\ \/ rel_repo_path = pat_base
           \/ StartsWith(rel_repo_path, pat_base \o Slash)
     \/ /\ ~is_dir_pattern
        /\ (fnmatch(rel_repo_path, pat) \/ fnmatch(item_name, pat))
     \/ /\ is_dir
        /\ (fnmatch(rel_repo_path, pat) \/ fnmatch(item_name, pat))

\* Step 1 of should_ignore: the .gitignore patterns, relative to GITIGNORE_ROOT.
GitignorePass(abs_path, item_name, spec) ==
  /\ spec # None /\ Val(spec) # <<>>
  /\ GITIGNORE_ROOT # None
  /\ LET rel_repo_path == relpath(abs_path, Val(GITIGNORE_ROOT))
         is_dir == isdir(abs_path)
     IN \E k \in 1..Len(Val(spec)) :
          GitignorePatternHits(Val(spec)[k], rel_repo_path, item_name, is_dir)

\* One turn of the loop over the custom patterns: whether it returns True.
CustomPatternHits(pat, rel_start_path, item_name, is_dir) ==
  \/ fnmatch(rel_start_path, pat) \/ fnmatch(item_name, pat)
  \/ is_dir /\ EndsWith(pat, Slash) /\ fnmatch(rel_start_path \o Slash, pat)
  \/ (is_dir /\ fnmatch(rel_start_path, pat)) \/ fnmatch(item_name, pat)

\* CustomPass with the path taken relative to GITIGNORE_ROOT.
CustomPass_RelativeToAnchor(abs_path, item_name, start_dir, patterns) ==
  LET rel_start_path == relpath(abs_path, Val(GITIGNORE_ROOT))
      is_dir == isdir(abs_path)
  IN \E k \in 1..Len(patterns) :
       CustomPatternHits(patterns[k], rel_start_path, item_name, is_dir)

\* Step 2 of should_ignore: the custom patterns, relative to start_dir.
CustomPass(abs_path, item_name, start_dir, patterns) ==
  LET rel_start_path == relpath(abs_path, start_dir)
      is_dir == isdir(abs_path)
  IN \E k \in 1..Len(patterns) :
       CustomPatternHits(patterns[k], rel_start_path, item_name, is_dir)

should_ignore(path, start_dir, spec, patterns) ==
  LET abs_path == path
      item_name == basename(path)
  IN \/ GitignorePass(abs_path, item_name, spec)
     \/ CustomPass(abs_path, item_name, start_dir, patterns)

\* should_include comparing the lowered name with the pattern as written.
should_include_CaseSensitive(name, include_patterns) ==
  IF include_patterns = None \/ Val(include_patterns) = <<>> THEN TRUE
  ELSE LET name_lower == Lower(name)
       IN \E k \in 1..Len(Val(include_patterns)) :
            fnmatch(name_lower, Val(include_patterns)[k])

should_include(name, include_patterns) ==
  IF include_patterns = None \/ Val(include_patterns) = <<>> THEN TRUE
  ELSE LET name_lower == Lower(name)
       IN \E k \in 1..Len(Val(include_patterns)) :
            fnmatch(name_lower, Lower(Val(include_patterns)[k]))

(***************************************************************************)
(* get_directory_structure                                                 *)
(*                                                                         *)
(* The string it returns is modelled by its lines (the '\n'.join of the    *)
(* return and the splitlines() of the caller undo each other: no name      *)
(* holds a line break).  Each line carries, beside its text, the path of   *)
(* the entry it was written for and what it is: "dir", "file", "note"      *)
(* (the [Permission Denied] line) or "error".                              *)
(***************************************************************************)

Line(text, path, type) == [ text |-> text, path |-> path, type |-> type ]

\* [x for x in items if keep(x)]
Filter(items, keep(_)) == SelectSeq(items, keep)

\* The concatenation of a sequence of sequences.
RECURSIVE Flatten(_)
Flatten(seqs) == IF seqs = <<>> THEN <<>> ELSE seqs[1] \o Flatten(Tail(seqs))

\* ListItems with the names in descending order, as sorted(..., reverse=True).
ListItems_Reversed(path) ==
  LET asc == sorted(scandir(path))
  IN [ k \in 1..Len(asc) |-> asc[Len(asc) + 1 - k] ]

\* items = sorted([entry.name for entry in os.scandir(path)])
ListItems(path) == sorted(scandir(path))

\* files = [i for i in items if os.path.isfile(os.path.join(path, i))]
FilesOf(path, items) == Filter(items, LAMBDA i : isfile(join(path, i)))

\* dirs = [d for d in items if os.path.isdir(os.path.join(path, d))]
DirsOf(path, items) == Filter(items, LAMBDA d : isdir(join(path, d)))

\* StructureFiles without the ignore test.
StructureFiles_Unfiltered(path, start_dir, spec, patterns) ==
  FilesOf(path, ListItems(path))

\* StructureFiles with the --include filter applied to the structure too.
StructureFiles_IncludeFiltered(path, start_dir, spec, patterns) ==
  Filter(FilesOf(path, ListItems(path)),
         LAMBDA f : /\ ~should_ignore(join(path, f), start_dir, spec, patterns)
                    /\ should_include(f, args.include))

\* The files that get a child entry: those not ignored.
StructureFiles(path, start_dir, spec, patterns) ==
  Filter(FilesOf(path, ListItems(path)),
         LAMBDA f : ~should_ignore(join(path, f), start_dir, spec, patterns))

\* Descends with the limit test off by one: "depth <= max_depth".
Descends_Inclusive(max_depth, depth) == max_depth = -1 \/ depth <= max_depth

\* Whether the loop over the subdirectories runs at this depth.
Descends(max_depth, depth) == max_depth = -1 \/ depth < max_depth

\* The subdirectories that get a child entry: none at the depth limit, else
\* those not ignored.
StructureDirs(path, start_dir, max_depth, spec, patterns, depth) ==
  IF Descends(max_depth, depth)
    THEN Filter(DirsOf(path, ListItems(path)),
                LAMBDA d : ~should_ignore(join(path, d), start_dir, spec, patterns))
    ELSE <<>>

\* The lines of one child entry ("for i, entry in enumerate(child_entries)").
FormatEntry(entry, path, is_last, indent) ==
  LET connector == IF is_last THEN TxtCorner ELSE TxtTee
      item_indent == indent \o <<" ", " ">>
      lead == item_indent \o connector \o <<" ">>
  IN IF entry.type = "file"
       THEN << Line(lead \o entry.name, join(path, entry.name), "file") >>
     ELSE IF entry.subtree = <<>> THEN <<>>
     ELSE
       LET first == entry.subtree[1]
           first_line == first.text
           rest == Tail(entry.subtree)
           name_start_index == RIndex(first_line, entry.name)
       IN IF name_start_index = -1
            THEN << Line(lead \o TxtReconstruct \o entry.name \o <<"]">>,
                         join(path, entry.name), "error") >>
          ELSE IF name_start_index > Len(item_indent) + Len(connector)
            THEN LET sub_indent ==
                       Spaces(Len(item_indent) + Len(connector) + 1
                              + name_start_index - Len(LStrip(first_line)))
                 IN << [ first EXCEPT !.text =
                           lead \o SubSeq(first_line, name_start_index + 1, Len(first_line)) ] >>
                    \o [ k \in 1..Len(rest) |->
                           [ rest[k] EXCEPT !.text = sub_indent \o @ ] ]
          ELSE << [ first EXCEPT !.text = lead \o LStrip(first_line) ] >>
               \o [ k \in 1..Len(rest) |->
                      [ rest[k] EXCEPT !.text = item_indent \o <<" ", " ">> \o @ ] ]

RECURSIVE get_directory_structure(_, _, _, _, _, _)
get_directory_structure(path, start_dir, max_depth, spec, patterns, depth) ==
  IF ~isdir(path)
    THEN << Line(TxtErrorOpen \o PathStr(path) \o TxtErrorClose, path, "error") >>
  ELSE
    LET indent == Spaces(2 * depth)
        name == IF depth > 0 THEN basename(path) ELSE PathStr(path)
        prefix == IF depth > 0 THEN indent \o TxtCorner \o <<" ">> ELSE <<>>
        dir_header == Line(prefix \o name \o Slash, path, "dir")
    IN IF fs[path].access = "denied"
         THEN << dir_header,
                 Line(indent \o <<" ", " ">> \o TxtCorner \o <<" ">> \o TxtPermissionDenied,
                      path, "note") >>
       ELSE IF fs[path].access = "vanished"
         THEN << Line(prefix \o name \o Slash \o TxtVanished, path, "dir") >>
       ELSE
         LET files == StructureFiles(path, start_dir, spec, patterns)
             dirs == StructureDirs(path, start_dir, max_depth, spec, patterns, depth)
             file_entries ==
               [ k \in 1..Len(files) |->
                   [ name |-> files[k], type |-> "file", subtree |-> <<>> ] ]
             dir_entries ==
               [ k \in 1..Len(dirs) |->
                   [ name |-> dirs[k], type |-> "dir",
                     subtree |-> get_directory_structure(join(path, dirs[k]), start_dir,
                                   max_depth, spec, patterns, depth + 1) ] ]
             child_entries ==
               file_entries \o Filter(dir_entries, LAMBDA e : e.subtree # <<>>)
             num_entries == Len(child_entries)
         IN << dir_header >>
            \o Flatten([ i \in 1..num_entries |->
                         FormatEntry(child_entries[i], path, i = num_entries, indent) ])

(***************************************************************************)
(* get_file_contents                                                       *)
(*                                                                         *)
(* The string it returns is modelled by its content blocks, in order: the  *)
(* separator line "--- File: <path relative to start_dir> ---", the path   *)
(* of the file, and whether the text of the file follows it ("text") or    *)
(* the inline annotation <<Error reading file ...>> ("error").             *)
(***************************************************************************)

Block(file_path, start_dir) ==
  [ header |-> TxtFileOpen \o relpath(file_path, start_dir) \o TxtFileClose,
    path |-> file_path,
    body |-> IF fs[file_path].access = "ok" THEN "text" ELSE "error" ]

\* ContentFiles with a failed read ending the loop over the files: the
\* files after the first unreadable one get no block.
ContentFiles_StopsAtFailure(path, start_dir, spec, patterns, include_patterns) ==
  LET all == Filter(FilesOf(path, ListItems(path)),
                    LAMBDA f : /\ ~should_ignore(join(path, f), start_dir, spec, patterns)
                               /\ should_include(f, include_patterns))
  IN SelectSeq(all, LAMBDA f :
       \A k \in 1..Len(all) :
         fs[join(path, all[k])].access # "ok" => ~StrLess(all[k], f))

\* The files of one directory that get a content block: not ignored, and
\* passing should_include.
ContentFiles(path, start_dir, spec, patterns, include_patterns) ==
  Filter(FilesOf(path, ListItems(path)),
         LAMBDA f : /\ ~should_ignore(join(path, f), start_dir, spec, patterns)
                    /\ should_include(f, include_patterns))

\* ContentDirs stopping one level early: "depth + 1 < max_depth".
ContentDirs_StopsEarly(path, start_dir, max_depth, spec, patterns, depth) ==
  IF Descends(max_depth, depth + 1)
    THEN Filter(DirsOf(path, ListItems(path)),
                LAMBDA d : ~should_ignore(join(path, d), start_dir, spec, patterns))
    ELSE <<>>

\* The subdirectories get_file_contents is called on: none at the depth
\* limit, else those not ignored.
ContentDirs(path, start_dir, max_depth, spec, patterns, depth) ==
  IF Descends(max_depth, depth)
    THEN Filter(DirsOf(path, ListItems(path)),
                LAMBDA d : ~should_ignore(join(path, d), start_dir, spec, patterns))
    ELSE <<>>

RECURSIVE get_file_contents(_, _, _, _, _, _, _)
get_file_contents(path, start_dir, max_depth, spec, patterns, include_patterns, depth) ==
  IF ~isdir(path) \/ (max_depth # -1 /\ depth > max_depth) THEN <<>>
  ELSE IF fs[path].access # "ok" THEN <<>>
  ELSE
    LET files == ContentFiles(path, start_dir, spec, patterns, include_patterns)
        dirs == ContentDirs(path, start_dir, max_depth, spec, patterns, depth)
    IN [ k \in 1..Len(files) |-> Block(join(path, files[k]), start_dir) ]
       \o Flatten([ k \in 1..Len(dirs) |->
                    get_file_contents(join(path, dirs[k]), start_dir, max_depth, spec,
                                      patterns, include_patterns, depth + 1) ])

(***************************************************************************)
(* The directories the two traversals list, and the degraded conditions    *)
(* they meet on the way                                                    *)
(***************************************************************************)

\* The directories on which get_directory_structure calls os.scandir: the
\* directory it is called on and, when the listing succeeds, those of the
\* recursive calls.
RECURSIVE StructureScanned(_, _, _, _, _, _)
StructureScanned(path, start_dir, max_depth, spec, patterns, depth) ==
  IF ~isdir(path) THEN {}
  ELSE IF fs[path].access # "ok" THEN {path}
  ELSE LET dirs == StructureDirs(path, start_dir, max_depth, spec, patterns, depth)
       IN {path} \cup UNION { StructureScanned(join(path, dirs[k]), start_dir, max_depth,
                                               spec, patterns, depth + 1) :
                                k \in 1..Len(dirs) }

\* The directories on which get_file_contents calls os.scandir.
RECURSIVE ContentScanned(_, _, _, _, _, _)
ContentScanned(path, start_dir, max_depth, spec, patterns, depth) ==
  IF ~isdir(path) \/ (max_depth # -1 /\ depth > max_depth) THEN {}
  ELSE IF fs[path].access # "ok" THEN {path}
  ELSE LET dirs == ContentDirs(path, start_dir, max_depth, spec, patterns, depth)
       IN {path} \cup UNION { ContentScanned(join(path, dirs[k]), start_dir, max_depth,
                                             spec, patterns, depth + 1) :
                                k \in 1..Len(dirs) }

\* A degraded condition: what went wrong, on which path, in which step.
Condition(kind, path, during) == [ kind |-> kind, path |-> path, during |-> during ]

\* The exceptions caught in get_directory_structure (lines 262-265): the
\* listings that raised PermissionError or FileNotFoundError.
StructureFaults(start_dir, max_depth, spec, patterns) ==
  { Condition(fs[d].access, d, "structure") :
      d \in { e \in StructureScanned(start_dir, start_dir, max_depth, spec, patterns, 0) :
                fs[e].access # "ok" } }

\* The exceptions caught in get_file_contents: the listings that raised
\* (lines 349-350) and the reads that raised (lines 370-371).
ContentFaults(start_dir, max_depth, spec, patterns, include_patterns) ==
  LET scanned == ContentScanned(start_dir, start_dir, max_depth, spec, patterns, 0)
      listed == { d \in scanned : fs[d].access = "ok" }
      opened == UNION { { join(d, ContentFiles(d, start_dir, spec, patterns,
                                                include_patterns)[k]) :
                            k \in 1..Len(ContentFiles(d, start_dir, spec, patterns,
                                                      include_patterns)) } :
                        d \in listed }
  IN { Condition(fs[d].access, d, "contents") : d \in scanned \ listed }
     \cup { Condition("unreadable", f, "contents") :
              f \in { g \in opened : fs[g].access # "ok" } }

\* What can go wrong in parse_gitignore: no regular file at the path (line
\* 147), or a read that raises (lines 158-160).
IgnoreFileFaults(path) ==
  IF ~isfile(path) THEN { Condition("ignore_missing", path, "parse_gitignore") }
  ELSE IF fs[path].access # "ok"
    THEN { Condition("ignore_unparsable", path, "parse_gitignore") }
  ELSE {}

(***************************************************************************)
(* parse_gitignore                                                         *)
(***************************************************************************)

\* PatternLines testing the stripped line for the leading "#".
PatternLines_TestsStripped(text) ==
  LET kept == Filter(text, LAMBDA line : Strip(line) # <<>> /\ ~StartsWith(Strip(line), <<"#">>))
  IN [ k \in 1..Len(kept) |-> Strip(kept[k]) ]

\* lines = [line.strip() for line in f if line.strip() and not line.startswith('#')]
PatternLines(text) ==
  LET kept == Filter(text, LAMBDA line : Strip(line) # <<>> /\ ~StartsWith(line, <<"#">>))
  IN [ k \in 1..Len(kept) |-> Strip(kept[k]) ]

\* What parse_gitignore(gitignore_path) returns and leaves in
\* RAW_GITIGNORE_PATTERNS: [spec, raw, warned].  A read that fails is caught:
\* a warning is printed and None returned.
parse_gitignore(gitignore_path) ==
  IF ~isfile(gitignore_path)
    THEN [ spec |-> None, raw |-> <<>>, warned |-> FALSE ]
  ELSE IF fs[gitignore_path].access # "ok"
    THEN [ spec |-> None, raw |-> <<>>, warned |-> TRUE ]
  ELSE [ spec |-> Some(PatternLines(ignoreFileText)),
         raw |-> PatternLines(ignoreFileText),
         warned |-> FALSE ]

(***************************************************************************)
(* The inputs: the names, patterns and ignore-file lines the filesystems   *)
(* and command lines of the model are built from.                          *)
(***************************************************************************)

N_w == <<"w">>
N_r == <<"r">>
N_q == <<"q">>
N_a_py == <<"a", ".", "p", "y">>
N_b_txt == <<"b", ".", "t", "x", "t">>
N_lock_json == <<"l", "o", "c", "k", ".", "j", "s", "o", "n">>
N_n_ipynb == <<"n", ".", "i", "p", "y", "n", "b">>
N_build == <<"b", "u", "i", "l", "d">>
N_o_py == <<"o", ".", "p", "y">>
N_sub == <<"s", "u", "b">>
N_c_py == <<"c", ".", "p", "y">>
N_M_PY == <<"M", ".", "P", "Y">>
N_node_modules == <<"n", "o", "d", "e", "_", "m", "o", "d", "u", "l", "e", "s">>
N_x_js == <<"x", ".", "j", "s">>
N_d == <<"d">>
N_HEAD == <<"H", "E", "A", "D">>
P_txt == <<"*", ".", "t", "x", "t">>
P_sub_dir == <<"s", "u", "b", "/">>
P_build_dir == <<"b", "u", "i", "l", "d", "/">>
P_sub_c_py == <<"s", "u", "b", "/", "c", ".", "p", "y">>
P_PY == <<"*", ".", "P", "Y">>
P_sub_any == <<"s", "u", "b", "/", "*">>
P_B == <<"B", "*">>
L_comment == <<"#", " ", "c">>
L_txt_padded == <<" ", "*", ".", "t", "x", "t", " ">>
L_negated == <<"!", "a", ".", "p", "y">>
L_indented_hash == <<" ", "#", "x">>
N_bang_a_py == <<"!", "a", ".", "p", "y">>
P_r_sub_M_PY == <<"r", "/", "s", "u", "b", "/", "M", ".", "P", "Y">>
P_r_a_py == <<"r", "/", "a", ".", "p", "y">>
P_build_o_py == <<"b", "u", "i", "l", "d", "/", "o", ".", "p", "y">>
L_a_any_padded == <<" ", "a", ".", "*", " ">>

\* The deepest max depth argument tried (beside -1, unlimited).
MaxDepthArg == 2

\* The number of directories "d" nested below sub/node_modules.
MaxNest == 1

W == <<N_w>>
R == <<N_w, N_r>>
SubDir == <<N_w, N_r, N_sub>>
ModulesDir == <<N_w, N_r, N_sub, N_node_modules>>

File == [ type |-> "file", access |-> "ok" ]
Dir == [ type |-> "dir", access |-> "ok" ]

\* The path of the k-th nested directory d below sub/node_modules.
NestDir(k) == ModulesDir \o [ i \in 1..k |-> N_d ]

\* A filesystem: the root, /w, the tree /w/r, and what varies: a .git
\* directory in /w, a .git directory or file in /w/r, whether /w/r/build is
\* a file or a directory, which of /w and /w/r hold a .gitignore, and one
\* entry that cannot be listed or read.
MakeFs(markerW, markerR, buildKind, ignoreAt, fault) ==
  LET base ==
        { <<<<>>, Dir>>, <<W, Dir>>, <<R, Dir>>,
          <<join(R, N_a_py), File>>, <<join(R, N_b_txt), File>>,
          <<join(R, N_lock_json), File>>, <<join(R, N_n_ipynb), File>>,
          <<SubDir, Dir>>, <<join(SubDir, N_c_py), File>>, <<join(SubDir, N_M_PY), File>>,
          <<ModulesDir, Dir>>, <<join(ModulesDir, N_x_js), File>>,
          <<join(NestDir(MaxNest), N_o_py), File>> }
        \cup { <<NestDir(k), Dir>> : k \in 1..MaxNest }
      build ==
        IF buildKind = "file" THEN { <<join(R, N_build), File>> }
        ELSE { <<join(R, N_build), Dir>>, <<join(join(R, N_build), N_o_py), File>> }
      markers ==
        (IF markerW THEN { <<join(W, NameGit), Dir>> } ELSE {})
        \cup (IF markerR = "dir"
                THEN { <<join(R, NameGit), Dir>>, <<join(join(R, NameGit), N_HEAD), File>> }
              ELSE IF markerR = "file" THEN { <<join(R, NameGit), File>> }
              ELSE {})
      ignores == { <<join(d, NameGitignore), File>> : d \in ignoreAt }
      entries == base \cup build \cup markers \cup ignores
      paths == { e[1] : e \in entries }
      plain == [ q \in paths |-> (CHOOSE e \in entries : e[1] = q)[2] ]
  IN IF fault = "denied" THEN [ plain EXCEPT ![SubDir].access = "denied" ]
     ELSE IF fault = "vanished" THEN [ plain EXCEPT ![SubDir].access = "vanished" ]
     ELSE IF fault = "unreadable" THEN [ plain EXCEPT ![join(R, N_a_py)].access = "denied" ]
     ELSE IF fault = "ignorefile" /\ join(R, NameGitignore) \in paths
       THEN [ plain EXCEPT ![join(R, NameGitignore)].access = "denied" ]
     ELSE plain

\* The texts of the ignore file.
IgnoreTexts ==
  { << P_build_dir >>,
    << L_comment, <<>>, L_txt_padded, L_negated, L_indented_hash >>,
    << P_sub_c_py, N_build >> }

\* The custom ignore patterns of the command line.
CustomChoices == { <<>>, << P_txt >>, << P_sub_dir, N_c_py >> }

\* The --include option: absent, or one or more patterns.
IncludeChoices == { None, Some(<< P_PY >>), Some(<< P_sub_any, P_B >>) }

\* The start directory argument: relative to the working directory /w, or
\* absolute and not normalized; "q" does not exist.
StartChoices ==
  { [ absolute |-> FALSE, segments |-> << N_r >> ],
    [ absolute |-> FALSE, segments |-> << N_r, N_sub >> ],
    [ absolute |-> TRUE, segments |-> << N_w, N_r, N_sub, DotDot >> ],
    [ absolute |-> FALSE, segments |-> << N_q >> ] }

Argv(start, depth, withContents, ipynb, custom, noGitignore) ==
  [ start |-> start, depth |-> depth, contents |-> withContents, ignore_ipynb |-> ipynb,
    custom |-> custom, no_gitignore |-> noGitignore, include |-> None ]

Input(markerW, markerR, buildKind, ignoreAt, text, fault, argv0) ==
  [ fs |-> MakeFs(markerW, markerR, buildKind, ignoreAt, fault),
    text |-> IF ignoreAt = {} THEN <<>> ELSE text,
    argv |-> argv0 ]

\* os.path.isdir on filesystem f.
isdir_in(f, path) == path \in DOMAIN f /\ f[path].type = "dir"

\* Runs inside the repository /w/r that vary the ignore rules, the depth
\* and the tree.
TraversalInputs ==
  { Input(FALSE, "dir", buildKind, {R}, text, "none",
          Argv([ absolute |-> FALSE, segments |-> << N_r >> ], depth, TRUE, ipynb, custom,
               noGitignore)) :
      buildKind \in {"file", "dir"}, text \in IgnoreTexts, depth \in -1..MaxDepthArg,
      ipynb \in BOOLEAN, custom \in CustomChoices, noGitignore \in BOOLEAN }

\* Runs that vary where the repository marker and the ignore files are and
\* where the run starts.
RootInputs ==
  { Input(markerW, markerR, "dir", ignoreAt, text, "none",
          Argv(start, 1, TRUE, TRUE, <<>>, noGitignore)) :
      markerW \in BOOLEAN, markerR \in {"none", "dir", "file"}, ignoreAt \in SUBSET {W, R},
      text \in IgnoreTexts, start \in StartChoices, noGitignore \in BOOLEAN }

\* Runs in which one directory cannot be listed or one file cannot be read,
\* and runs that print no contents; the depth argument is any integer
\* argparse accepts, -2 standing for those below -1.
FaultInputs ==
  { Input(FALSE, "dir", "file", {R}, << P_build_dir >>, fault,
          Argv([ absolute |-> FALSE, segments |-> << N_r >> ], depth, withContents, TRUE,
               <<>>, FALSE)) :
      fault \in {"none", "denied", "vanished", "unreadable", "ignorefile"},
      depth \in -2..MaxDepthArg, withContents \in BOOLEAN }

\* Filesystem f with one more regular file.
WithFile(f, path) == [ q \in DOMAIN f \cup {path} |-> IF q = path THEN File ELSE f[q] ]

\* Runs whose ignore file holds a comment, a blank line, a padded rule, a
\* line starting with "!" that names a file the rule matches, and an
\* indented "#" line; the tree also holds a file named "!a.py".
NegationInputs ==
  { [ Input(FALSE, "dir", "file", {R}, << L_comment, <<>>, L_a_any_padded, L_negated, L_indented_hash >>,
            "none",
            Argv([ absolute |-> FALSE, segments |-> << N_r >> ], depth, TRUE, TRUE, <<>>,
                 noGitignore))
        EXCEPT !.fs = WithFile(@, join(R, N_bang_a_py)) ] :
      depth \in -1..MaxDepthArg, noGitignore \in BOOLEAN }

\* Runs started on a regular file.
FileStartInputs ==
  { Input(FALSE, "dir", "file", {R}, << P_build_dir >>, "none",
          Argv([ absolute |-> FALSE, segments |-> << N_r, N_a_py >> ], -1, withContents, TRUE,
               <<>>, noGitignore)) :
      withContents \in BOOLEAN, noGitignore \in BOOLEAN }

\* Runs started in /w/r with the repository marker and the ignore file in
\* /w: the ignore file and the command line both hold a pattern written
\* relative to /w and one written relative to /w/r.
BasisInputs ==
  { Input(TRUE, "none", "dir", {W}, << P_sub_c_py, P_r_sub_M_PY >>, "none",
          Argv([ absolute |-> FALSE, segments |-> << N_r >> ], depth, TRUE, TRUE,
               << P_r_a_py, P_build_o_py >>, noGitignore)) :
      depth \in -1..MaxDepthArg, noGitignore \in BOOLEAN }

Inputs ==
  TraversalInputs \cup RootInputs \cup FaultInputs \cup NegationInputs \cup FileStartInputs
    \cup BasisInputs

(***************************************************************************)
(* main                                                                    *)
(***************************************************************************)

\* What main appends to final_output and prints: the sections of the
\* primary output.
Section(tag, body) == [ section |-> tag, body |-> body ]

FinalOutput ==
  << Section("directory", <<>>) >>
  \o (IF args.include # None /\ Val(args.include) # <<>>
        THEN << Section("contents_filter", Val(args.include)) >> ELSE <<>>)
  \o << Section("separator", <<>>) >>
  \o (IF structure # <<>> THEN << Section("structure", structure) >>
      ELSE << Section("structure_empty", <<>>) >>)
  \o (IF ~args.contents THEN <<>>
      ELSE IF contents # <<>> THEN << Section("contents", contents) >>
      ELSE IF structure # <<>> /\ args.include # None /\ Val(args.include) # <<>>
        THEN << Section("contents_none_matched", <<>>) >>
      ELSE IF structure # <<>> THEN << Section("contents_none_found", <<>>) >>
      ELSE <<>>)

\* The state of a process that has just been started.
Fresh ==
  /\ pc = "main"
  /\ args = None
  /\ start_dir_abs = None
  /\ current = None
  /\ GITIGNORE_ROOT = None
  /\ RAW_GITIGNORE_PATTERNS = <<>>
  /\ gitignore_spec = None
  /\ custom_patterns = <<>>
  /\ structure = <<>>
  /\ contents = <<>>
  /\ stdout = <<>>
  /\ stderr = <<>>
  /\ exit_code = None
  /\ degraded = {}

Init ==
  /\ \E in \in Inputs :
       /\ fs = in.fs
       /\ ignoreFileText = in.text
       /\ argv = in.argv
  /\ cwd = W
  /\ previous = None
  /\ Fresh

\* The path of an absolute directory as an argument of os.path.abspath.
AsArg(path) == [ absolute |-> TRUE, segments |-> path ]

\* main_setup without the sys.exit(1): the error is printed and main goes on.
main_setup_GoesOn ==
  /\ pc = "main"
  /\ args' = argv
  /\ start_dir_abs' = Some(abspath(argv.start))
  /\ stderr' = stderr
       \o (IF ~argv.no_gitignore THEN << "warning_no_pathspec" >> ELSE <<>>)
       \o (IF isdir(abspath(argv.start)) THEN <<>> ELSE << "error_start_directory" >>)
  /\ current' = Some(abspath(AsArg(abspath(argv.start))))
  /\ pc' = "find_git_root"
  /\ UNCHANGED << fs, ignoreFileText, cwd, argv, GITIGNORE_ROOT, RAW_GITIGNORE_PATTERNS,
                  gitignore_spec, custom_patterns, structure, contents, stdout, exit_code,
                  previous, degraded >>

\* main, lines 435-451: parse the command line, warn about the missing
\* pathspec module, resolve the start directory; a start path that is not a
\* directory is reported and the process exits with status 1.
main_setup ==
  /\ pc = "main"
  /\ args' = argv
  /\ start_dir_abs' = Some(abspath(argv.start))
  /\ LET warned == IF ~argv.no_gitignore THEN << "warning_no_pathspec" >> ELSE <<>>
     IN IF isdir(abspath(argv.start))
          THEN /\ stderr' = stderr \o warned
               /\ current' = Some(abspath(AsArg(abspath(argv.start))))
               /\ pc' = "find_git_root"
               /\ exit_code' = exit_code
          ELSE /\ stderr' = stderr \o warned \o << "error_start_directory" >>
               /\ current' = current
               /\ pc' = "exited"
               /\ exit_code' = Some(1)
  /\ UNCHANGED << fs, ignoreFileText, cwd, argv, GITIGNORE_ROOT, RAW_GITIGNORE_PATTERNS,
                  gitignore_spec, custom_patterns, structure, contents, stdout, previous, degraded >>

\* The test with any entry named .git taken for the marker (os.path.exists).
HasGitDir_AnyEntry(dir) == exists(join(dir, NameGit))

\* find_git_root's test: os.path.isdir(os.path.join(current, '.git'))
HasGitDir(dir) == isdir(join(dir, NameGit))

\* find_git_root, one turn of its loop: current holds a .git directory, and
\* is returned (main stores it in GITIGNORE_ROOT).
find_git_root_found ==
  /\ pc = "find_git_root"
  /\ HasGitDir(Val(current))
  /\ GITIGNORE_ROOT' = Some(Val(current))
  /\ pc' = "load_gitignore"
  /\ UNCHANGED << fs, ignoreFileText, cwd, argv, args, start_dir_abs, current,
                  RAW_GITIGNORE_PATTERNS, gitignore_spec, custom_patterns, structure,
                  contents, stdout, stderr, exit_code, previous, degraded >>

\* find_git_root, one turn of its loop: no .git directory here and a parent
\* to go up to.
find_git_root_up ==
  /\ pc = "find_git_root"
  /\ ~HasGitDir(Val(current))
  /\ dirname(Val(current)) # Val(current)
  /\ current' = Some(dirname(Val(current)))
  /\ UNCHANGED << fs, ignoreFileText, cwd, argv, args, pc, start_dir_abs, GITIGNORE_ROOT,
                  RAW_GITIGNORE_PATTERNS, gitignore_spec, custom_patterns, structure,
                  contents, stdout, stderr, exit_code, previous, degraded >>

\* find_git_root, one turn of its loop: the filesystem root is reached with
\* no .git directory found; the absolute start directory is returned.
find_git_root_fallback ==
  /\ pc = "find_git_root"
  /\ ~HasGitDir(Val(current))
  /\ dirname(Val(current)) = Val(current)
  /\ GITIGNORE_ROOT' = Some(abspath(AsArg(Val(start_dir_abs))))
  /\ pc' = "load_gitignore"
  /\ UNCHANGED << fs, ignoreFileText, cwd, argv, args, start_dir_abs, current,
                  RAW_GITIGNORE_PATTERNS, gitignore_spec, custom_patterns, structure,
                  contents, stdout, stderr, exit_code, previous, degraded >>

\* The ignore file looked for in the working directory instead.
gitignore_path_AtCwd == join(cwd, NameGitignore)

\* The file main hands to parse_gitignore.
gitignore_path == join(Val(GITIGNORE_ROOT), NameGitignore)

\* main, lines 455-467: read the ignore file of GITIGNORE_ROOT unless
\* --no-gitignore is given.
load_gitignore ==
  /\ pc = "load_gitignore"
  /\ IF ~args.no_gitignore
       THEN LET parsed == parse_gitignore(gitignore_path)
            IN /\ gitignore_spec' = parsed.spec
               /\ RAW_GITIGNORE_PATTERNS' = parsed.raw
               /\ stderr' = stderr
                    \o (IF parsed.warned THEN << "warning_gitignore_unparsed" >> ELSE <<>>)
               /\ degraded' = degraded \cup IgnoreFileFaults(gitignore_path)
       ELSE /\ gitignore_spec' = None
            /\ UNCHANGED << RAW_GITIGNORE_PATTERNS, stderr, degraded >>
  /\ pc' = "combine_patterns"
  /\ UNCHANGED << fs, ignoreFileText, cwd, argv, args, start_dir_abs, current,
                  GITIGNORE_ROOT, custom_patterns, structure, contents, stdout, exit_code,
                  previous >>

\* The patterns main appends to the custom ones.
DefaultPatterns(ignore_ipynb) ==
  (IF ignore_ipynb THEN << PatIpynb >> ELSE <<>>)
  \o << PatLockJson, PatGit, PatPycache, PatNodeModules >>

\* main, lines 459-467: the line of the header that tells what became of
\* the ignore file ("if gitignore_spec" is false for None and for no rule).
gitignore_message ==
  IF args.no_gitignore THEN "gitignore_disabled"
  ELSE IF gitignore_spec # None /\ Val(gitignore_spec) # <<>> THEN "using_gitignore"
  ELSE "no_gitignore_found"

\* main, lines 469-520: the custom patterns and the defaults; the header is
\* printed on the diagnostic channel.  "args.custom or []" is args.custom
\* itself when it is not empty, so the appends also change args.custom.
combine_patterns ==
  /\ pc = "combine_patterns"
  /\ custom_patterns' = args.custom \o DefaultPatterns(args.ignore_ipynb)
  /\ args' = IF args.custom # <<>>
               THEN [ args EXCEPT !.custom = @ \o DefaultPatterns(args.ignore_ipynb) ]
               ELSE args
  /\ stderr' = stderr \o << "header", gitignore_message >>
  /\ pc' = "generate_structure"
  /\ UNCHANGED << fs, ignoreFileText, cwd, argv, start_dir_abs, current, GITIGNORE_ROOT,
                  RAW_GITIGNORE_PATTERNS, gitignore_spec, structure, contents, stdout,
                  exit_code, previous, degraded >>

\* main, lines 525-533
generate_structure ==
  /\ pc = "generate_structure"
  /\ structure' = get_directory_structure(Val(start_dir_abs), Val(start_dir_abs),
                    args.depth, gitignore_spec, custom_patterns, 0)
  /\ degraded' = degraded
       \cup StructureFaults(Val(start_dir_abs), args.depth, gitignore_spec, custom_patterns)
  /\ pc' = "generate_contents"
  /\ UNCHANGED << fs, ignoreFileText, cwd, argv, args, start_dir_abs, current,
                  GITIGNORE_ROOT, RAW_GITIGNORE_PATTERNS, gitignore_spec, custom_patterns,
                  contents, stdout, stderr, exit_code, previous >>

\* main, lines 537-549
generate_contents ==
  /\ pc = "generate_contents"
  /\ contents' =
       IF args.contents
         THEN get_file_contents(Val(start_dir_abs), Val(start_dir_abs), args.depth,
                gitignore_spec, custom_patterns, args.include, 0)
         ELSE contents
  /\ degraded' =
       IF args.contents
         THEN degraded \cup ContentFaults(Val(start_dir_abs), args.depth, gitignore_spec,
                                          custom_patterns, args.include)
         ELSE degraded
  /\ pc' = "print_output"
  /\ UNCHANGED << fs, ignoreFileText, cwd, argv, args, start_dir_abs, current,
                  GITIGNORE_ROOT, RAW_GITIGNORE_PATTERNS, gitignore_spec, custom_patterns,
                  structure, stdout, stderr, exit_code, previous >>

\* main, lines 561-562, and the normal end of the process.
print_output ==
  /\ pc = "print_output"
  /\ stdout' = FinalOutput
  /\ exit_code' = Some(0)
  /\ pc' = "done"
  /\ UNCHANGED << fs, ignoreFileText, cwd, argv, args, start_dir_abs, current,
                  GITIGNORE_ROOT, RAW_GITIGNORE_PATTERNS, gitignore_spec, custom_patterns,
                  structure, contents, stderr, previous, degraded >>

\* The program is started again on the unchanged filesystem, with the same
\* command line but for the --include option; what the finished run was
\* given and produced is kept for comparison.
invoke_again ==
  /\ pc = "done"
  /\ \E include \in IncludeChoices : argv' = [ argv EXCEPT !.include = include ]
  /\ previous' = Some([ include |-> argv.include, fs |-> fs, structure |-> structure,
                        contents |-> contents, stdout |-> stdout ])
  /\ pc' = "main"
  /\ args' = None
  /\ start_dir_abs' = None
  /\ current' = None
  /\ GITIGNORE_ROOT' = None
  /\ RAW_GITIGNORE_PATTERNS' = <<>>
  /\ gitignore_spec' = None
  /\ custom_patterns' = <<>>
  /\ structure' = <<>>
  /\ contents' = <<>>
  /\ stdout' = <<>>
  /\ stderr' = <<>>
  /\ exit_code' = None
  /\ degraded' = {}
  /\ UNCHANGED << fs, ignoreFileText, cwd >>

Next ==
  \/ main_setup
  \/ find_git_root_found
  \/ find_git_root_up
  \/ find_git_root_fallback
  \/ load_gitignore
  \/ combine_patterns
  \/ generate_structure
  \/ generate_contents
  \/ print_output
  \/ invoke_again

Spec == Init /\ [][Next]_vars

(***************************************************************************)
(* Runs before and after a file becomes unreadable                         *)
(***************************************************************************)

\* Runs with contents, inside the repository /w/r and around it.
ReadFailureInputs ==
  { in \in TraversalInputs :
      in.argv.ignore_ipynb /\ ~in.argv.no_gitignore /\ isdir_in(in.fs, join(R, N_build)) }
  \cup { in \in RootInputs : in.text = << P_build_dir >> /\ ~in.argv.no_gitignore }

InitReadFailure ==
  /\ \E in \in ReadFailureInputs :
       /\ fs = in.fs
       /\ ignoreFileText = in.text
       /\ argv = in.argv
  /\ cwd = W
  /\ previous = None
  /\ Fresh

\* A file the finished run printed becomes unreadable (open or read raise
\* from now on), and the program is started again with the same command
\* line; what the finished run was given and produced is kept for
\* comparison.
invoke_after_read_failure ==
  /\ pc = "done"
  /\ \A q \in DOMAIN fs : fs[q].access = "ok"
  /\ \E k \in 1..Len(contents) :
       fs' = [ fs EXCEPT ![contents[k].path].access = "denied" ]
  /\ previous' = Some([ include |-> argv.include, fs |-> fs, structure |-> structure,
                        contents |-> contents, stdout |-> stdout ])
  /\ pc' = "main"
  /\ args' = None
  /\ start_dir_abs' = None
  /\ current' = None
  /\ GITIGNORE_ROOT' = None
  /\ RAW_GITIGNORE_PATTERNS' = <<>>
  /\ gitignore_spec' = None
  /\ custom_patterns' = <<>>
  /\ structure' = <<>>
  /\ contents' = <<>>
  /\ stdout' = <<>>
  /\ stderr' = <<>>
  /\ exit_code' = None
  /\ degraded' = {}
  /\ UNCHANGED << ignoreFileText, cwd, argv >>

NextReadFailure ==
  \/ main_setup
  \/ find_git_root_found
  \/ find_git_root_up
  \/ find_git_root_fallback
  \/ load_gitignore
  \/ combine_patterns
  \/ generate_structure
  \/ generate_contents
  \/ print_output
  \/ invoke_again
  \/ invoke_after_read_failure

SpecReadFailure == InitReadFailure /\ [][NextReadFailure]_vars

(***************************************************************************)
(* Runs during which the filesystem changes                                *)
(***************************************************************************)

\* Runs in which nothing is wrong when the program starts.
ChangingFsInputs ==
  { in \in FaultInputs : \A q \in DOMAIN in.fs : in.fs[q].access = "ok" }
  \cup { in \in RootInputs : in.text = << P_build_dir >> }

InitChangingFs ==
  /\ \E in \in ChangingFsInputs :
       /\ fs = in.fs
       /\ ignoreFileText = in.text
       /\ argv = in.argv
  /\ cwd = W
  /\ previous = None
  /\ Fresh

\* Another process takes the read permission of a directory away, or
\* removes it while it is being listed, after get_directory_structure has
\* returned and before get_file_contents is called.
directory_becomes_unlistable ==
  /\ pc = "generate_contents"
  /\ \A q \in DOMAIN fs : fs[q].access = "ok"
  /\ \E d \in { q \in DOMAIN fs : isdir(q) /\ StartsWith(q, Val(start_dir_abs)) },
        how \in {"denied", "vanished"} :
       fs' = [ fs EXCEPT ![d].access = how ]
  /\ UNCHANGED << ignoreFileText, cwd, argv, args, pc, start_dir_abs, current,
                  GITIGNORE_ROOT, RAW_GITIGNORE_PATTERNS, gitignore_spec, custom_patterns,
                  structure, contents, stdout, stderr, exit_code, previous, degraded >>

NextChangingFs ==
  \/ main_setup
  \/ find_git_root_found
  \/ find_git_root_up
  \/ find_git_root_fallback
  \/ load_gitignore
  \/ combine_patterns
  \/ generate_structure
  \/ generate_contents
  \/ print_output
  \/ directory_becomes_unlistable

SpecChangingFs == InitChangingFs /\ [][NextChangingFs]_vars

(***************************************************************************)
(* Vocabulary of the properties                                            *)
(***************************************************************************)

\* Both traversals of the run are over.
Traversed == pc = "done"

StartDir == Val(start_dir_abs)

\* Path p lies below directory d.
Below(p, d) == Len(p) > Len(d) /\ SubSeq(p, 1, Len(d)) = d

\* The number of levels p lies below the start directory.
Level(p) == Len(p) - Len(StartDir)

\* The immediate children of directory d in the filesystem.
Children(d) == { p \in DOMAIN fs : Len(p) = Len(d) + 1 /\ Below(p, d) }

\* should_ignore as both traversals of this run call it.
Ignored(p) == should_ignore(p, StartDir, gitignore_spec, custom_patterns)

\* The lines of the structure output written for a file or a directory
\* below the start directory.
EntryLines ==
  { structure[k] : k \in { i \in 1..Len(structure) :
      structure[i].type \in {"file", "dir"} /\ Below(structure[i].path, StartDir) } }

\* The entries that have a line, and the files that have a content block.
Shown == { l.path : l \in EntryLines }
WithBlock == { contents[k].path : k \in 1..Len(contents) }

\* The directories get_directory_structure listed: the start directory and
\* the directories with a header line, when their listing succeeded.
ListedDirs ==
  { d \in {StartDir} \cup { l.path : l \in { m \in EntryLines : m.type = "dir" } } :
      fs[d].access = "ok" }

\* s sorts strictly before t: at the first position where they differ s has
\* the smaller character, or s ends there.
LexBefore(s, t) ==
  \E k \in 1..Len(t) :
    /\ \A i \in 1..(k - 1) : i <= Len(s) /\ s[i] = t[i]
    /\ k = Len(s) + 1 \/ (k <= Len(s) /\ Ord[s[k]] < Ord[t[k]])

(***************************************************************************)
(* C1                                                                      *)
(***************************************************************************)

\* C1, as claimed: for every directory D get_directory_structure lists, every
\* line written for a child of D names an entry that should_ignore lets
\* through, and every child of D that should_ignore lets through has a line,
\* whatever max_depth is.
C1_Original ==
  Traversed =>
    \A d \in ListedDirs :
      /\ \A l \in EntryLines : dirname(l.path) = d => ~Ignored(l.path)
      /\ \A c \in Children(d) : ~Ignored(c) => c \in Shown

\* C1, amended: for every directory D get_directory_structure lists, every
\* line written for a child of D names an entry that should_ignore lets
\* through; every child file that should_ignore lets through has a line; and
\* every child directory that should_ignore lets through has a line when
\* max_depth is -1 or D lies fewer than max_depth levels below the start.
C1_FilterSoundComplete ==
  Traversed =>
    \A d \in ListedDirs :
      /\ \A l \in EntryLines : dirname(l.path) = d => ~Ignored(l.path)
      /\ \A c \in Children(d) :
           ~Ignored(c) /\ (isfile(c) \/ args.depth = -1 \/ Level(d) < args.depth)
             => c \in Shown

\* C1, witness: a listed directory with an ignored child that has no line, a
\* child file with a line, and, at the depth limit, a child directory that
\* is not ignored and has no line.
C1_Witness ==
  /\ Traversed
  /\ \E d \in ListedDirs :
       /\ Level(d) = args.depth
       /\ \E c \in Children(d) : Ignored(c) /\ c \notin Shown
       /\ \E c \in Children(d) : isfile(c) /\ ~Ignored(c) /\ c \in Shown
       /\ \E c \in Children(d) : isdir(c) /\ ~Ignored(c) /\ c \notin Shown

(***************************************************************************)
(* C2                                                                      *)
(***************************************************************************)

\* The run of the example: start /w/r, which holds a.py, b.txt and sub/c.py,
\* depth 1, the ignore pattern *.txt and no ignore-file rules.
C2_Example ==
  /\ StartDir = R
  /\ args.depth = 1
  /\ argv.custom = << P_txt >>
  /\ gitignore_spec = None

\* C2, as claimed: with max_depth = k >= 0 no line is written for an entry
\* more than k levels below the start, a directory k levels below the start
\* has its header and no line for a child, and the example lists a.py and
\* sub/ and neither b.txt nor c.py.
C2_Original ==
  Traversed /\ args.depth >= 0 =>
    /\ \A l \in EntryLines : Level(l.path) <= args.depth
    /\ \A l \in EntryLines :
         l.type = "dir" /\ Level(l.path) = args.depth =>
           \A m \in EntryLines : dirname(m.path) # l.path
    /\ C2_Example =>
         /\ join(R, N_a_py) \in Shown /\ SubDir \in Shown
         /\ join(R, N_b_txt) \notin Shown /\ join(SubDir, N_c_py) \notin Shown

\* C2, amended: with max_depth = k >= 0 no file line is written for an entry
\* more than k + 1 levels below the start and no directory line for an entry
\* more than k levels below it; a directory k levels below the start has its
\* header and lines for its files, and no line for a subdirectory.  The
\* example lists a.py, sub/ and sub/c.py, and not b.txt.
C2_DepthLimit ==
  Traversed /\ args.depth >= 0 =>
    /\ \A l \in EntryLines :
         Level(l.path) <= (IF l.type = "file" THEN args.depth + 1 ELSE args.depth)
    /\ \A l \in EntryLines :
         l.type = "dir" /\ Level(l.path) = args.depth =>
           \A m \in EntryLines : dirname(m.path) = l.path => m.type = "file"
    /\ C2_Example =>
         /\ join(R, N_a_py) \in Shown /\ SubDir \in Shown
         /\ join(R, N_b_txt) \notin Shown /\ join(SubDir, N_c_py) \in Shown

\* C2, witness: the example, where sub/ is at the limit: its file c.py has a
\* line, its subdirectory node_modules, which is not ignored, has none.
C2_Witness ==
  /\ Traversed
  /\ C2_Example
  /\ join(SubDir, N_c_py) \in Shown
  /\ ~Ignored(ModulesDir) /\ ModulesDir \notin Shown

(***************************************************************************)
(* C3                                                                      *)
(***************************************************************************)

\* Lines i and j of the structure are written for two children of one
\* directory.
Siblings(i, j) ==
  /\ structure[i].type \in {"file", "dir"} /\ structure[j].type \in {"file", "dir"}
  /\ Below(structure[i].path, StartDir) /\ Below(structure[j].path, StartDir)
  /\ dirname(structure[i].path) = dirname(structure[j].path)

\* C3: among the lines written for the children of one directory, the file
\* lines are in ascending lexicographic order of name, the directory lines
\* are in ascending lexicographic order of name, and no directory line
\* comes before a file line.
C3_SiblingOrder ==
  Traversed =>
    \A i, j \in 1..Len(structure) :
      i < j /\ Siblings(i, j) =>
        /\ structure[i].type = structure[j].type =>
             LexBefore(basename(structure[i].path), basename(structure[j].path))
        /\ ~(structure[i].type = "dir" /\ structure[j].type = "file")

\* C3, witness: one directory with two file lines and two directory lines,
\* where a directory's name sorts before a file's name.
C3_Witness ==
  /\ Traversed
  /\ \E f, g, d, e \in EntryLines :
       /\ f.type = "file" /\ g.type = "file" /\ f # g
       /\ d.type = "dir" /\ e.type = "dir" /\ d # e
       /\ dirname(f.path) = dirname(g.path) /\ dirname(g.path) = dirname(d.path)
       /\ dirname(d.path) = dirname(e.path)
       /\ LexBefore(basename(d.path), basename(f.path))

(***************************************************************************)
(* C4                                                                      *)
(***************************************************************************)

NoInclude(include) == include = None \/ Val(include) = <<>>

\* C4: a run and the run before it, which differ in the include patterns
\* only, print the same structure; and when one of them has no include
\* pattern, the files with a content block in the other are among the files
\* with a content block in it.
C4_IncludeOnlyFiltersContents ==
  Traversed /\ previous # None =>
    LET before == Val(previous)
        blocksBefore == { before.contents[k].path : k \in 1..Len(before.contents) }
    IN /\ structure = before.structure
       /\ NoInclude(before.include) => WithBlock \subseteq blocksBefore
       /\ NoInclude(args.include) => blocksBefore \subseteq WithBlock

\* C4, witness: a run with an include filter after a run without one, the
\* filter removing some content blocks and keeping others.
C4_Witness ==
  /\ Traversed /\ previous # None
  /\ NoInclude(Val(previous).include) /\ ~NoInclude(args.include)
  /\ WithBlock # {}
  /\ \E k \in 1..Len(Val(previous).contents) : Val(previous).contents[k].path \notin WithBlock
  /\ Len(structure) > 1

(***************************************************************************)
(* C5 and C6                                                               *)
(***************************************************************************)

\* Directory d is one get_file_contents lists: the start directory, or a
\* directory below it none of whose ancestors below the start is ignored,
\* itself not ignored, at most max_depth levels below the start; and every
\* directory from the start down to d can be listed.
ReachedDir(d) ==
  /\ d = StartDir \/ Below(d, StartDir)
  /\ args.depth = -1 \/ Level(d) <= args.depth
  /\ \A n \in Len(StartDir)..Len(d) :
       LET a == SubSeq(d, 1, n)
       IN /\ isdir(a) /\ fs[a].access = "ok"
          /\ n > Len(StartDir) => ~Ignored(a)

FilesBelowStart == { f \in DOMAIN fs : isfile(f) /\ Below(f, StartDir) }

\* C5, as claimed: with no include pattern, every file under the start
\* directory that should_ignore lets through has a content block.
C5_Original ==
  Traversed /\ args.contents /\ NoInclude(args.include) =>
    \A f \in FilesBelowStart : ~Ignored(f) => f \in WithBlock

\* C5, amended: with no include pattern, every file under the start
\* directory that should_ignore lets through has a content block, provided
\* its directory is one get_file_contents lists (ReachedDir).
C5_AllReachedFiles ==
  Traversed /\ args.contents /\ NoInclude(args.include) =>
    \A f \in FilesBelowStart :
      ~Ignored(f) /\ ReachedDir(dirname(f)) => f \in WithBlock

\* C5, witness: no include pattern, a file two levels down with a content
\* block, and a file that is not ignored and has none.
C5_Witness ==
  /\ Traversed /\ args.contents /\ NoInclude(args.include)
  /\ \E f \in FilesBelowStart : Level(f) >= 2 /\ f \in WithBlock
  /\ \E f \in FilesBelowStart : ~Ignored(f) /\ f \notin WithBlock

\* str.upper()
UpperChar(c) ==
  IF Ord[c] >= LowerFirst /\ Ord[c] < LowerFirst + (UpperLast - UpperFirst + 1)
    THEN CharTable[Ord[c] - LowerFirst + UpperFirst]
    ELSE c

Upper(s) == [ i \in 1..Len(s) |-> UpperChar(s[i]) ]

\* The base name matches one of the include patterns, letter case set aside.
IncludeAdmits(name) ==
  \/ NoInclude(args.include)
  \/ \E k \in 1..Len(Val(args.include)) : fnmatch(Upper(name), Upper(Val(args.include)[k]))

\* C6: a file get_file_contents reaches and should_ignore lets through has a
\* content block if and only if there is no include pattern or its base
\* name matches an include pattern case-insensitively; its directory does
\* not count.
C6_IncludeRule ==
  Traversed /\ args.contents =>
    \A f \in FilesBelowStart :
      ~Ignored(f) /\ ReachedDir(dirname(f)) =>
        (f \in WithBlock <=> IncludeAdmits(basename(f)))

\* C6, witness: the patterns "sub/*" and "B*": b.txt has a block by "B*",
\* sub/c.py is reached and has none although its path matches "sub/*".
C6_Witness ==
  /\ Traversed /\ args.contents
  /\ args.include = Some(<< P_sub_any, P_B >>)
  /\ join(R, N_b_txt) \in WithBlock
  /\ ~Ignored(join(SubDir, N_c_py)) /\ ReachedDir(SubDir)
  /\ join(SubDir, N_c_py) \notin WithBlock
  /\ fnmatch(relpath(join(SubDir, N_c_py), StartDir), P_sub_any)

(***************************************************************************)
(* C7 and C8                                                               *)
(***************************************************************************)

\* The rule set and the patterns of the run are complete.
RulesReady == pc \in {"generate_structure", "generate_contents", "print_output", "done"}

\* C7: with the ignore-file rule "build/", should_ignore returns true for a
\* directory whose anchor-relative path is "build" and for every path below
\* it, and false for a regular file whose anchor-relative path is "build".
C7_BuildRule ==
  RulesReady /\ gitignore_spec = Some(<< P_build_dir >>) =>
    \A p \in DOMAIN fs :
      LET rel == relpath(p, Val(GITIGNORE_ROOT))
      IN /\ rel = N_build /\ isdir(p) => Ignored(p)
         /\ StartsWith(rel, P_build_dir) => Ignored(p)
         /\ rel = N_build /\ isfile(p) => ~Ignored(p)

DefaultDirNames == { NameGit, RStripSlash(PatPycache), RStripSlash(PatNodeModules) }

\* Entry p is a directory named .git, __pycache__ or node_modules below the
\* start directory, or lies below one, or is a file matching *lock.json or,
\* with ignore_ipynb, *.ipynb.
HiddenByDefault(p) ==
  \/ \E n \in (Len(StartDir) + 1)..Len(p) :
       p[n] \in DefaultDirNames /\ isdir(SubSeq(p, 1, n))
  \/ /\ isfile(p)
     /\ \/ fnmatch(basename(p), PatLockJson)
        \/ args.ignore_ipynb /\ fnmatch(basename(p), PatIpynb)

\* C8: with the default patterns, no directory named .git, __pycache__ or
\* node_modules at any depth under the start directory, nothing below such a
\* directory, and no file matching *lock.json or *.ipynb has a line in the
\* structure output or a block in the content output.
C8_DefaultsHide ==
  Traversed => \A p \in Shown \cup WithBlock : ~HiddenByDefault(p)

(***************************************************************************)
(* C9 and C10                                                              *)
(***************************************************************************)

\* The directory and its ancestors.
Prefixes(p) == { SubSeq(p, 1, n) : n \in 0..Len(p) }

\* The nearest of the directory and its ancestors that holds a .git
\* directory; the directory itself when none does.
NearestRepo(dir) ==
  LET marked == { d \in Prefixes(dir) : isdir(join(d, NameGit)) }
  IN IF marked = {} THEN dir
     ELSE CHOOSE d \in marked : \A e \in marked : Len(e) <= Len(d)

RootResolved == pc \in {"load_gitignore", "combine_patterns"} \/ RulesReady

\* C9: find_git_root returns the nearest directory, among the absolute start
\* directory and its ancestors, that holds a .git directory, and the
\* absolute start directory when none does, without an error; and it
\* terminates: a turn of its loop is always possible, and each turn returns
\* or moves to a strictly shorter path.
C9_FindGitRoot ==
  /\ [](RootResolved =>
          /\ GITIGNORE_ROOT = Some(NearestRepo(abspath(argv.start)))
          /\ exit_code # Some(1))
  /\ [](pc = "find_git_root" =>
          ENABLED (find_git_root_found \/ find_git_root_up \/ find_git_root_fallback))
  /\ [][pc = "find_git_root" =>
          \/ pc' = "load_gitignore"
          \/ pc' = "find_git_root" /\ Len(Val(current')) < Len(Val(current))]_vars

\* C9, witness: the run starts in /w/r/sub, /w and /w/r both hold a .git
\* directory, and find_git_root has gone up and returned /w/r.
C9_Witness ==
  /\ pc = "load_gitignore"
  /\ StartDir = SubDir
  /\ isdir(join(W, NameGit)) /\ isdir(join(R, NameGit))
  /\ GITIGNORE_ROOT = Some(R)

\* No directory from the start directory up to the root holds the marker.
NoMarker == \A d \in Prefixes(StartDir) : ~isdir(join(d, NameGit))

EmptyRules == gitignore_spec = None \/ Val(gitignore_spec) = <<>>

\* C10, as claimed: when no directory from the start directory up to the
\* root holds the marker, the ignore-file rule set is empty, and the custom
\* and default patterns are applied.
C10_Original ==
  RulesReady /\ NoMarker =>
    /\ EmptyRules
    /\ custom_patterns = argv.custom \o DefaultPatterns(argv.ignore_ipynb)

\* C10, amended: when no directory from the start directory up to the root
\* holds the marker, the anchor is the start directory and the ignore-file
\* rule set is the one read from the .gitignore of the start directory: it
\* is empty when that file is missing or unreadable, has no pattern line, or
\* --no-gitignore is given, and holds the file's pattern lines otherwise.
\* The custom and default patterns are applied: nothing they match has a
\* line or a block.
C10_NoMarkerRules ==
  RulesReady /\ NoMarker =>
    LET own == join(StartDir, NameGitignore)
    IN /\ GITIGNORE_ROOT = Some(StartDir)
       /\ gitignore_spec =
            IF argv.no_gitignore \/ ~isfile(own) THEN None
            ELSE IF fs[own].access # "ok" THEN None
            ELSE Some(PatternLines(ignoreFileText))
       /\ EmptyRules <=>
            \/ argv.no_gitignore \/ ~isfile(own)
            \/ fs[own].access # "ok" \/ PatternLines(ignoreFileText) = <<>>
       /\ custom_patterns = argv.custom \o DefaultPatterns(argv.ignore_ipynb)
       /\ Traversed =>
            \A q \in Shown \cup WithBlock :
              ~CustomPass(q, basename(q), StartDir, custom_patterns)

\* C10, witness: no marker anywhere, rules read from the start directory's
\* .gitignore, and a child of the start directory left out of the structure
\* because of one of them; a default pattern hides another child.
C10_Witness ==
  /\ Traversed /\ NoMarker /\ ~EmptyRules
  /\ \E c \in Children(StartDir) :
       /\ GitignorePass(c, basename(c), gitignore_spec)
       /\ ~CustomPass(c, basename(c), StartDir, custom_patterns)
       /\ c \notin Shown
  /\ \E c \in Children(StartDir) :
       CustomPass(c, basename(c), StartDir, custom_patterns) /\ c \notin Shown

(***************************************************************************)
(* C11                                                                     *)
(***************************************************************************)

\* The ignore file has been read by this run: main is past the call of
\* parse_gitignore, --no-gitignore was not given, and the file of the anchor
\* exists and can be read.
IgnoreFileRead ==
  /\ pc \in {"combine_patterns", "generate_structure", "generate_contents",
             "print_output", "done"}
  /\ ~args.no_gitignore
  /\ isfile(gitignore_path) /\ fs[gitignore_path].access = "ok"

\* A line is blank when it holds nothing but white space.
Blank(line) == \A i \in 1..Len(line) : line[i] = " "

\* The lines of a text that are not blank and do not start with "#", in the
\* order of the text, each without the white space around it.
RECURSIVE KeptLines(_)
KeptLines(text) ==
  IF text = <<>> THEN <<>>
  ELSE (IF ~Blank(text[1]) /\ text[1][1] # "#" THEN << Strip(text[1]) >> ELSE <<>>)
       \o KeptLines(Tail(text))

\* The rules of the loaded rule set that do not start with "!", and those
\* that do.
PlainRules ==
  IF gitignore_spec = None THEN {}
  ELSE { Val(gitignore_spec)[k] : k \in { i \in 1..Len(Val(gitignore_spec)) :
           Val(gitignore_spec)[i][1] # "!" } }
BangRules ==
  IF gitignore_spec = None THEN {}
  ELSE { Val(gitignore_spec)[k] : k \in { i \in 1..Len(Val(gitignore_spec)) :
           Val(gitignore_spec)[i][1] = "!" } }

\* Rule pat, taken alone, matches path p of the filesystem.
RuleMatches(pat, p) ==
  GitignorePatternHits(pat, relpath(p, Val(GITIGNORE_ROOT)), basename(p), isdir(p))

FailsSince(f) ==
  /\ previous # None
  /\ f # gitignore_path
  /\ Val(previous).include = args.include
  /\ f \in DOMAIN fs /\ fs[f].access # "ok" /\ Val(previous).fs[f].access = "ok"
  /\ fs = [ Val(previous).fs EXCEPT ![f].access = fs[f].access ]
  /\ \E k \in 1..Len(Val(previous).contents) : Val(previous).contents[k].path = f

\* C12: when the read of one file that is neither ignored nor excluded
\* fails in get_file_contents, the contents hold that file's separator line followed by the
\* inline error annotation, and every other content block (the siblings of
\* the file and the files of the remaining subdirectories) is the one the
\* run produced when the read succeeded, in the same order.
C12_ReadFailureIsolated ==
  \A f \in DOMAIN fs :
    (Traversed /\ FailsSince(f)) =>
      LET before == Val(previous).contents
      IN /\ Len(contents) = Len(before)
         /\ \A k \in 1..Len(contents) :
              IF contents[k].path = f
                THEN /\ contents[k].header = TxtFileOpen \o relpath(f, StartDir) \o TxtFileClose
                     /\ contents[k].body = "error"
                     /\ before[k].path = f /\ before[k].body = "text"
                ELSE contents[k] = before[k]

\* C12 witness: the read of a file fails that has a sibling file before it
\* and one after it in the contents and a subdirectory whose files follow;
\* all of them keep their blocks.
C12_Witness ==
  \E f \in DOMAIN fs :
    /\ Traversed /\ FailsSince(f)
    /\ \E i, j, k, l \in 1..Len(contents) :
         /\ i < j /\ j < k /\ k < l
         /\ contents[j].path = f /\ contents[j].body = "error"
         /\ dirname(contents[i].path) = dirname(f) /\ contents[i].body = "text"
         /\ dirname(contents[k].path) = dirname(f) /\ contents[k].body = "text"
         /\ Below(contents[l].path, dirname(f)) /\ dirname(contents[l].path) # dirname(f)
         /\ contents[l].body = "text"

(***************************************************************************)
(* C13                                                                     *)
(***************************************************************************)

\* The lines and the blocks of the sections printed on the primary output.
PrintedLines ==
  UNION { { stdout[i].body[k] : k \in 1..Len(stdout[i].body) } :
          i \in { j \in 1..Len(stdout) : stdout[j].section = "structure" } }
PrintedBlocks ==
  UNION { { stdout[i].body[k] : k \in 1..Len(stdout[i].body) } :
          i \in { j \in 1..Len(stdout) : stdout[j].section = "contents" } }

Messages == { stderr[k] : k \in 1..Len(stderr) }

\* The contents section is replaced by the note "(No files found or content
\* could not be read)".
NoContentNote == \E i \in 1..Len(stdout) : stdout[i].section = "contents_none_found"

\* The trace of a degraded condition: the placeholder line or the inline
\* annotation written for its path on the primary output (for a listing
\* that failed in the second traversal, also the note that no content could
\* be read), or the message about it on the diagnostic channel.
Traced(c) ==
  IF c.kind = "denied"
    THEN \/ \E l \in PrintedLines :
              l.path = c.path /\ l.type = "note" /\ EndsWith(l.text, TxtPermissionDenied)
         \/ c.during = "contents" /\ NoContentNote
  ELSE IF c.kind = "vanished"
    THEN \/ \E l \in PrintedLines : l.path = c.path /\ EndsWith(l.text, TxtVanished)
         \/ c.during = "contents" /\ NoContentNote
  ELSE IF c.kind = "unreadable"
    THEN \E b \in PrintedBlocks : b.path = c.path /\ b.body = "error"
  ELSE IF c.kind = "ignore_missing"
    THEN "no_gitignore_found" \in Messages
  ELSE "warning_gitignore_unparsed" \in Messages

\* C13: every degraded condition met during a run (a directory that cannot
\* be listed, in either traversal; a file that cannot be read; a missing or
\* unparsable ignore file) has left its trace when the run is over: an
\* inline placeholder in the structure or the contents printed, or a message
\* on the diagnostic channel.  (A path that cannot be made relative does not
\* occur: every path checked lies below the start directory, and the anchor
\* is the start directory or one of its ancestors.)
C13_DegradedTraced == pc = "done" => \A c \in degraded : Traced(c)

(***************************************************************************)
(* C14                                                                     *)
(***************************************************************************)

\* The start path of the command line is not an existing directory.
InvalidStart == ~isdir(abspath(argv.start))

\* C14: when the start path does not exist or is not a directory, main
\* reports the error and exits with a nonzero status at once: the root is
\* not resolved, no ignore file is read, no traversal has run, nothing is on
\* the primary output, and the process takes no further step.  No other run
\* exits with a nonzero status, whatever degraded conditions it meets: it
\* ends with status 0.
C14_OnlyInvalidStartIsFatal ==
  /\ (InvalidStart /\ pc # "main") =>
       /\ pc = "exited"
       /\ exit_code # None /\ Val(exit_code) # 0
       /\ "error_start_directory" \in { stderr[k] : k \in 1..Len(stderr) }
       /\ current = None /\ GITIGNORE_ROOT = None
       /\ gitignore_spec = None /\ RAW_GITIGNORE_PATTERNS = <<>> /\ degraded = {}
       /\ structure = <<>> /\ contents = <<>>
       /\ stdout = <<>>
       /\ ~ENABLED Next
  /\ ~InvalidStart =>
       /\ pc # "exited"
       /\ exit_code # None => (pc = "done" /\ exit_code = Some(0))
       /\ pc = "done" => exit_code = Some(0)

\* C14 witness: the run was started on a regular file of a repository that
\* has an ignore file, and has exited.
C14_Witness ==
  /\ pc = "exited"
  /\ isfile(abspath(argv.start))
  /\ isfile(join(dirname(abspath(argv.start)), NameGitignore))
  /\ ~argv.no_gitignore

(***************************************************************************)
(* C15                                                                     *)
(***************************************************************************)

\* The text of path p relative to the anchor, and relative to the start
\* directory.
AnchorRelative(p) == relpath(p, Val(GITIGNORE_ROOT))
StartRelative(p) == relpath(p, StartDir)

\* A loaded rule matches p by its anchor-relative path or its base name.
GitignoreVerdict(p) ==
  /\ gitignore_spec # None
  /\ \E k \in 1..Len(Val(gitignore_spec)) :
       GitignorePatternHits(Val(gitignore_spec)[k], AnchorRelative(p), basename(p), isdir(p))

\* A custom or default pattern matches p by its start-relative path or its
\* base name.
CustomVerdict(p) ==
  \E k \in 1..Len(custom_patterns) :
    CustomPatternHits(custom_patterns[k], StartRelative(p), basename(p), isdir(p))

\* Pattern pat holds a path separator before its last character: it can
\* only match a path, not a base name.
PathPattern(pat) == \E i \in 1..(Len(pat) - 1) : pat[i] = "/"

\* C15: should_ignore returns true exactly when a loaded rule matches the
\* path relative to the anchor (or the base name) or a custom or default
\* pattern matches the path relative to the start directory (or the base
\* name); a rule that matches only the start-relative path and a custom
\* pattern that matches only the anchor-relative path ignore nothing (stated
\* where the rules are complete and the traversals start), and when the run
\* is over no entry either pass matches has a line.
C15_TwoBases ==
  /\ pc = "generate_structure" =>
       \A p \in { q \in DOMAIN fs : Below(q, StartDir) } :
         Ignored(p) <=> (GitignoreVerdict(p) \/ CustomVerdict(p))
  /\ Traversed => \A p \in Shown : ~GitignoreVerdict(p) /\ ~CustomVerdict(p)

\* C15 witness: anchor and start directory differ; a file whose
\* start-relative path a rule of the ignore file matches and a file whose
\* anchor-relative path a custom pattern matches are both listed; a file
\* whose anchor-relative path a rule matches and a file whose start-relative
\* path a custom pattern matches are both left out, their directories being
\* listed.
C15_Witness ==
  /\ Traversed /\ Val(GITIGNORE_ROOT) # StartDir /\ gitignore_spec # None
  /\ \E p \in Shown, k \in 1..Len(Val(gitignore_spec)) :
       PathPattern(Val(gitignore_spec)[k]) /\ fnmatch(StartRelative(p), Val(gitignore_spec)[k])
  /\ \E p \in Shown, k \in 1..Len(custom_patterns) :
       PathPattern(custom_patterns[k]) /\ fnmatch(AnchorRelative(p), custom_patterns[k])
  /\ \E p \in DOMAIN fs :
       /\ dirname(p) \in Shown /\ p \notin Shown
       /\ GitignoreVerdict(p) /\ ~CustomVerdict(p)
       /\ \A k \in 1..Len(Val(gitignore_spec)) :
            ~fnmatch(StartRelative(p), Val(gitignore_spec)[k])
  /\ \E p \in DOMAIN fs :
       /\ dirname(p) \in Shown /\ p \notin Shown
       /\ CustomVerdict(p) /\ ~GitignoreVerdict(p)
       /\ \A k \in 1..Len(custom_patterns) : ~fnmatch(AnchorRelative(p), custom_patterns[k])

(***************************************************************************)
(* C16                                                                     *)
(***************************************************************************)

\* The directories get_directory_structure processed at the depth limit:
\* listed, and max_depth levels below the start directory.
ListedAtLimit == { d \in ListedDirs : args.depth >= 0 /\ Level(d) = args.depth }

\* The subdirectories of d that should_ignore lets through.
KeptSubdirs(d) == { c \in Children(d) : isdir(c) /\ ~Ignored(c) }

\* C16, as claimed: with max_depth = k >= 0, every non-ignored subdirectory
\* of a directory processed at depth k has its own header line, and nothing
\* below it has a line.
C16_Original ==
  Traversed =>
    \A d \in ListedAtLimit : \A c \in KeptSubdirs(d) :
      /\ \E l \in EntryLines : l.path = c /\ l.type = "dir"
      /\ \A p \in Shown : ~Below(p, c)

\* C16, amended: with max_depth = k >= 0, a directory processed at depth k
\* has its header line and the lines of its non-ignored files, and none of
\* its subdirectories has a line, nor anything below them: the loop over the
\* subdirectories does not run; no error line is written for it.
C16_NoSubdirsAtLimit ==
  Traversed =>
    \A d \in ListedAtLimit :
      /\ \E k \in 1..Len(structure) : structure[k].path = d /\ structure[k].type = "dir"
      /\ \A c \in Children(d) : (isfile(c) /\ ~Ignored(c)) => c \in Shown
      /\ \A c \in Children(d) : isdir(c) => (c \notin Shown /\ \A p \in Shown : ~Below(p, c))
      /\ \A k \in 1..Len(structure) : structure[k].type # "error"

\* C16 witness: a directory one level or more below the start directory is
\* processed at the depth limit; it has a file that is listed and a
\* subdirectory that is not ignored and has no line.
C16_Witness ==
  /\ Traversed
  /\ \E d \in ListedAtLimit :
       /\ Level(d) >= 1
       /\ \E c \in Children(d) : isfile(c) /\ c \in Shown
       /\ \E c \in KeptSubdirs(d) : c \notin Shown /\ Children(c) # {}

(***************************************************************************)
(* C17                                                                     *)
(***************************************************************************)

\* The indices of the lines written for the entries below the start
\* directory.
EntryIndices ==
  { i \in 1..Len(structure) :
      structure[i].type \in {"file", "dir"} /\ Below(structure[i].path, StartDir) }

\* Line i is the line of the last entry listed under its parent.
LastSibling(i) ==
  \A j \in EntryIndices :
    dirname(structure[j].path) = dirname(structure[i].path) => j <= i

\* The connector of line i: the two characters after its leading spaces.
ConnectorOf(i) ==
  LET rest == LStrip(structure[i].text)
  IN IF Len(rest) >= 2 THEN SubSeq(rest, 1, 2) ELSE rest

\* The number of spaces line i begins with.
IndentOf(i) == Len(structure[i].text) - Len(LStrip(structure[i].text))

\* C17: in the structure returned for the start directory, the line of every
\* entry d >= 1 levels below the start begins with exactly 2*d spaces
\* followed by a connector, whatever the names of its ancestors; the
\* connector is the corner for the last sibling of its parent and the tee
\* for every other sibling.
C17_Indentation ==
  Traversed =>
    \A i \in EntryIndices :
      /\ IndentOf(i) = 2 * Level(structure[i].path)
      /\ ConnectorOf(i) = IF LastSibling(i) THEN TxtCorner ELSE TxtTee

(***************************************************************************)
(* C18                                                                     *)
(***************************************************************************)

\* The patterns of the run: the loaded rules and the custom and default
\* patterns.
PatternsOfRun ==
  (IF gitignore_spec = None THEN {}
   ELSE { Val(gitignore_spec)[k] : k \in 1..Len(Val(gitignore_spec)) })
  \cup { custom_patterns[k] : k \in 1..Len(custom_patterns) }

\* The verdict of each pass of should_ignore on path p when pattern pat is
\* its only pattern.
GitignoreAlone(pat, p) == GitignorePass(p, basename(p), Some(<< pat >>))
CustomAlone(pat, p) == CustomPass(p, basename(p), StartDir, << pat >>)

\* C18: when the anchor is the start directory, so that both passes see the
\* same relative path, the gitignore pass with the single rule p and the
\* custom pass with the single pattern p give the same verdict on every
\* path below the start directory; and a custom pattern ending in "/"
\* matches the directory it names and every path below that directory.
C18_SameMatcher ==
  (pc = "generate_structure" /\ Val(GITIGNORE_ROOT) = StartDir) =>
    \A pat \in PatternsOfRun :
      /\ \A p \in { q \in DOMAIN fs : Below(q, StartDir) } :
           GitignoreAlone(pat, p) <=> CustomAlone(pat, p)
      /\ EndsWith(pat, Slash) =>
           \A d \in { q \in DOMAIN fs : isdir(q) /\ StartRelative(q) = RStripSlash(pat) } :
             /\ CustomAlone(pat, d)
             /\ \A p \in { q \in DOMAIN fs : Below(q, d) } : CustomAlone(pat, p)

(***************************************************************************)
(* C19                                                                     *)
(***************************************************************************)

\* Every directory of the filesystem can be listed and every file read.
AllAccessible == \A q \in DOMAIN fs : fs[q].access = "ok"

\* The directories get_file_contents lists in this run.
ContentListed ==
  ContentScanned(StartDir, StartDir, args.depth, gitignore_spec, custom_patterns, 0)

\* C19, as claimed: on a filesystem that does not change and in which
\* every directory can be listed and every file read, for every max_depth
\* and every rule set, get_file_contents lists exactly the directories whose
\* children get_directory_structure lists; and with no include filter the
\* files that have a content block are exactly the files that have a line
\* in the structure.
C19_Original ==
  (Traversed /\ args.contents /\ AllAccessible) =>
    /\ ContentListed = ListedDirs
    /\ NoInclude(args.include) => WithBlock = { p \in Shown : isfile(p) }

\* C19, amended: the same for every max_depth that is -1 or a depth k >= 0.
\* (Below -1 get_directory_structure still lists the start directory and
\* get_file_contents returns at once.)
C19_SameDirectories ==
  (Traversed /\ args.contents /\ AllAccessible /\ args.depth >= -1) =>
    /\ ContentListed = ListedDirs
    /\ NoInclude(args.include) => WithBlock = { p \in Shown : isfile(p) }

\* C19 witness: a run with contents and no include filter, with a depth
\* limit that leaves a directory out of both traversals; a subdirectory is
\* listed by both, and files of two levels have a line and a block.
C19_Witness ==
  /\ Traversed /\ args.contents /\ AllAccessible /\ NoInclude(args.include)
  /\ args.depth >= 1
  /\ \E d \in ListedDirs : d # StartDir /\ d \in ContentListed
  /\ \E d \in DOMAIN fs :
       isdir(d) /\ Below(d, StartDir) /\ ~Ignored(d) /\ dirname(d) \in ListedDirs
         /\ d \notin ListedDirs /\ d \notin ContentListed
  /\ \E p, q \in WithBlock : Level(p) = 1 /\ Level(q) = 2 /\ p \in Shown /\ q \in Shown

====
